---- MODULE Spec2Model ----
(***************************************************************************)
(* A model of the calculator in src/script.js: the display buffer and its  *)
(* input handlers, the evaluation of the buffer, and the history with its  *)
(* persisted copy.                                                         *)
(*                                                                         *)
(* A JavaScript string is modelled as a sequence of one-character strings, *)
(* so "1+2" is <<"1", "+", "2">> and "" is << >>.                          *)
(***************************************************************************)
EXTENDS Integers, Sequences, FiniteSets, TLC

VARIABLES
    display,    \* display.value, the expression buffer (script.js:2)
    history,    \* the history array, newest first (script.js:9)
    storage,    \* localStorage's item under STORAGE_KEY (script.js:10)
    clock,      \* the wall clock read by new Date(); it advances at each reading
    call        \* the handler that ran last, its argument and the display it found

vars == <<display, history, storage, clock, call>>

----------------------------------------------------------------------------
(* Bounds of the exploration.                                              *)

\* The longest buffer a keystroke leaves, in SpecInput.
MaxLen == 5

\* The longest buffer a keystroke leaves, in Spec.
MaxCalcLen == 3

\* The number of history insertions explored in Spec and in SpecEval, and
\* after the samples in SpecSamples.
MaxEvals == 1

\* The number of history insertions by calculateResult explored in SpecHist.
MaxInserts == 202

\* The longest text evaluated in SpecEval.
MaxInputLen == 3

----------------------------------------------------------------------------
(* Characters and strings.                                                 *)

Digits == {"0", "1", "2", "3", "4", "5", "6", "7", "8", "9"}

\* The characters of "+-*/" (script.js:92, 94).
Operators == {"+", "-", "*", "/"}

\* The keys onKeyDown passes to appendValue.  The model types two digits.
Keys == {"0", "1", ".", "%"} \cup Operators

\* The keys typed in Spec, where every buffer is also evaluated.
CalcKeys == {"0", "1", "/"}

ErrorStr == <<"E", "r", "r", "o", "r">>
InfinityStr == <<"I", "n", "f", "i", "n", "i", "t", "y">>
NaNStr == <<"N", "a", "N">>

\* The three display values appendValue takes for an error (script.js:85).
Sentinels == {ErrorStr, InfinityStr, NaNStr}

\* s.slice(0, -1)
DropLast(s) == IF Len(s) = 0 THEN << >> ELSE SubSeq(s, 1, Len(s) - 1)

\* s.slice(-1): the last character, or "" for the empty string
LastChar(s) == IF Len(s) = 0 THEN << >> ELSE <<s[Len(s)]>>

\* "+-*/".includes(c) for c of at most one character; "" is included in
\* every string.
IncludesOperator(c) == Len(c) = 0 \/ c[1] \in Operators

\* The last element of s.split(/[\+\-\*\/%]/): the text after the last
\* separator (script.js:103-104).
LastToken(s) ==
    LET seps == {i \in 1..Len(s) : s[i] \in Operators \cup {"%"}}
        from == IF seps = {} THEN 1
                ELSE 1 + CHOOSE i \in seps : \A j \in seps : j <= i
    IN  SubSeq(s, from, Len(s))

\* Line 105 with a test that never finds the dot.
HasDotNever(s) == FALSE

HasDot(s) == \E i \in 1..Len(s) : s[i] = "."

----------------------------------------------------------------------------
(* Display control.                                                        *)

\* Line 85 without its test for "NaN".
ClearSentinelMissingNaN(d) ==
    IF d = ErrorStr \/ d = InfinityStr THEN << >> ELSE d

\* Lines 85-87 of appendValue: a display showing an error is cleared first.
ClearSentinel(d) ==
    IF d = ErrorStr \/ d = InfinityStr \/ d = NaNStr THEN << >> ELSE d

\* Line 96 with the slice forgotten: the operator is appended.
ReplaceOperatorAppends(d, value) == d \o <<value>>

\* Line 96 with the new operator forgotten: the old one stays.
ReplaceOperatorKeeps(d, value) == d

\* Line 96: the last operator is replaced by the new one.
ReplaceOperator(d, value) == DropLast(d) \o <<value>>

\* Line 106 forgotten: nothing is put in front of the ".".
DotPrefixNone(d) == d

\* Lines 102-107: what is put in front of a "." (line 106); the caller has
\* already returned when the current token holds a "." (line 105).
DotPrefix(d) ==
    IF LastToken(d) = << >> THEN d \o <<"0">> ELSE d

\* appendValue without line 93: an operator on an empty display goes on to
\* line 94, where "+-*/".includes("") holds.
AppendValueNoRejection(d0, value) ==
    LET d == ClearSentinel(d0)
    IN  IF value \in Operators /\ IncludesOperator(LastChar(d))
          THEN ReplaceOperator(d, value)
        ELSE IF value = "." /\ HasDot(LastToken(d))
          THEN d
        ELSE IF value = "."
          THEN DotPrefix(d) \o <<value>>
        ELSE d \o <<value>>

\* appendValue(value) as a function of the display it finds (script.js:83-111).
AppendValueResult(d0, value) ==
    LET d == ClearSentinel(d0)
    IN  IF value \in Operators /\ d = << >> /\ value # "-"
          THEN d                                            \* line 93
        ELSE IF value \in Operators /\ IncludesOperator(LastChar(d))
          THEN ReplaceOperator(d, value)                    \* lines 94-98
        ELSE IF value = "." /\ HasDot(LastToken(d))
          THEN d                                            \* line 105
        ELSE IF value = "."
          THEN DotPrefix(d) \o <<value>>                    \* lines 106, 110
        ELSE d \o <<value>>                                 \* line 110

\* deleteLast() as a function of the display it finds (script.js:117-123).
DeleteLastResult(d) ==
    IF d = ErrorStr THEN << >> ELSE DropLast(d)

AppendValue(value) ==
    /\ display' = AppendValueResult(display, value)
    /\ call' = [op |-> "appendValue", arg |-> <<value>>, before |-> display]
    /\ UNCHANGED <<history, storage, clock>>

ClearDisplay ==
    /\ display' = << >>
    /\ call' = [op |-> "clearDisplay", arg |-> << >>, before |-> display]
    /\ UNCHANGED <<history, storage, clock>>

DeleteLast ==
    /\ display' = DeleteLastResult(display)
    /\ call' = [op |-> "deleteLast", arg |-> << >>, before |-> display]
    /\ UNCHANGED <<history, storage, clock>>

----------------------------------------------------------------------------
(* Numbers.  A JavaScript number is modelled exactly: a sign and a         *)
(* fraction n/d in lowest terms (so zero keeps its sign), an infinity with *)
(* its sign, or NaN.  The model's expressions are short enough that the    *)
(* double nearest to such a fraction prints, at ten decimals, as the       *)
(* fraction does.                                                          *)

RECURSIVE Gcd(_, _)
Gcd(a, b) == IF b = 0 THEN a ELSE Gcd(b, a % b)

Num(s, n, d) ==
    LET g == Gcd(n, d)
    IN  [k |-> "num", s |-> s, n |-> n \div g, d |-> d \div g]

Inf(s) == [k |-> "inf", s |-> s, n |-> 0, d |-> 1]
NaNVal == [k |-> "nan", s |-> 1, n |-> 0, d |-> 1]

IsZero(x) == x.k = "num" /\ x.n = 0

\* Unary minus.
Neg(x) == IF x.k = "nan" THEN x ELSE [x EXCEPT !.s = -x.s]

\* x + y
Add(x, y) ==
    IF x.k = "nan" \/ y.k = "nan" THEN NaNVal
    ELSE IF x.k = "inf" /\ y.k = "inf"
      THEN IF x.s = y.s THEN x ELSE NaNVal
    ELSE IF x.k = "inf" THEN x
    ELSE IF y.k = "inf" THEN y
    ELSE LET a == x.s * x.n * y.d + y.s * y.n * x.d
         IN  IF a = 0
               THEN Num(IF IsZero(x) /\ IsZero(y) /\ x.s = -1 /\ y.s = -1
                          THEN -1 ELSE 1, 0, 1)
             ELSE IF a < 0 THEN Num(-1, -a, x.d * y.d)
             ELSE Num(1, a, x.d * y.d)

\* x - y
Sub(x, y) == Add(x, Neg(y))

\* x * y
Mul(x, y) ==
    IF x.k = "nan" \/ y.k = "nan" THEN NaNVal
    ELSE IF (x.k = "inf" /\ IsZero(y)) \/ (IsZero(x) /\ y.k = "inf") THEN NaNVal
    ELSE IF x.k = "inf" \/ y.k = "inf" THEN Inf(x.s * y.s)
    ELSE Num(x.s * y.s, x.n * y.n, x.d * y.d)

\* x / y: a division by zero gives an infinity, or NaN for 0/0.
Div(x, y) ==
    IF x.k = "nan" \/ y.k = "nan" THEN NaNVal
    ELSE IF x.k = "inf" /\ y.k = "inf" THEN NaNVal
    ELSE IF x.k = "inf" THEN Inf(x.s * y.s)
    ELSE IF y.k = "inf" THEN Num(x.s * y.s, 0, 1)
    ELSE IF IsZero(y) THEN IF IsZero(x) THEN NaNVal ELSE Inf(x.s * y.s)
    ELSE Num(x.s * y.s, x.n * y.d, x.d * y.n)

\* x % y, the remainder with the sign of the dividend.
Mod(x, y) ==
    IF x.k = "nan" \/ y.k = "nan" THEN NaNVal
    ELSE IF x.k = "inf" \/ IsZero(y) THEN NaNVal
    ELSE IF y.k = "inf" \/ IsZero(x) THEN x
    ELSE Num(x.s, (x.n * y.d) % (y.n * x.d), x.d * y.d)

\* Number.isInteger(x)
IsInteger(x) == x.k = "num" /\ x.d = 1

RECURSIVE Pow10(_)
Pow10(k) == IF k = 0 THEN 1 ELSE 10 * Pow10(k - 1)

DigitSeq == <<"0", "1", "2", "3", "4", "5", "6", "7", "8", "9">>

DigitChar(v) == DigitSeq[v + 1]

DigitValue(c) == CHOOSE v \in 0..9 : DigitSeq[v + 1] = c

\* The decimal digits of a natural number.
RECURSIVE NatToString(_)
NatToString(n) ==
    IF n < 10 THEN <<DigitChar(n)>>
    ELSE NatToString(n \div 10) \o <<DigitChar(n % 10)>>

\* The value of a string of decimal digits.
RECURSIVE DigitsToNat(_)
DigitsToNat(s) ==
    IF Len(s) = 0 THEN 0
    ELSE 10 * DigitsToNat(DropLast(s)) + DigitValue(s[Len(s)])

----------------------------------------------------------------------------
(* Normalisation of the expression (script.js:49-65).                      *)

\* The character at position i, or "" past the end.
At(e, i) == IF i >= 1 /\ i <= Len(e) THEN e[i] ELSE ""

\* The position after the longest run of digits that starts at i.
RECURSIVE DigitsEnd(_, _)
DigitsEnd(e, i) == IF At(e, i) \in Digits THEN DigitsEnd(e, i + 1) ELSE i

\* Where a match of /(\d+(\.\d+)?)%/ that starts at i ends (the position of
\* its "%"), or 0 when none starts at i.  \d+ takes the whole run of digits:
\* a shorter one is followed by a digit, which is neither "." nor "%".
PercentMatchEnd(e, i) ==
    LET j == DigitsEnd(e, i)
        l == DigitsEnd(e, j + 1)
    IN  IF j = i THEN 0
        ELSE IF At(e, j) = "." /\ l > j + 1 /\ At(e, l) = "%" THEN l
        ELSE IF At(e, j) = "%" THEN j
        ELSE 0

\* expr.replace(/(\d+(\.\d+)?)%/g, "($1/100)"), from position i on.
RECURSIVE ReplacePercentFrom(_, _)
ReplacePercentFrom(e, i) ==
    IF i > Len(e) THEN << >>
    ELSE LET m == PercentMatchEnd(e, i)
         IN  IF m = 0 THEN <<e[i]>> \o ReplacePercentFrom(e, i + 1)
             ELSE <<"(">> \o SubSeq(e, i, m - 1) \o <<"/", "1", "0", "0", ")">>
                     \o ReplacePercentFrom(e, m + 1)

\* normalizePercent(expr) (script.js:50-53)
NormalizePercent(expr) == ReplacePercentFrom(expr, 1)

\* expr.trim(); the only white space of the model is the blank.
RECURSIVE TrimStart(_)
TrimStart(s) ==
    IF Len(s) > 0 /\ s[1] = " " THEN TrimStart(Tail(s)) ELSE s

RECURSIVE TrimEnd(_)
TrimEnd(s) ==
    IF Len(s) > 0 /\ s[Len(s)] = " " THEN TrimEnd(DropLast(s)) ELSE s

Trim(s) == TrimEnd(TrimStart(s))

\* The characters of /^[+*\/]/ (script.js:59).
LeadingOperators == {"+", "*", "/"}

\* Line 59: one leading "+", "*" or "/" is sliced off.
StripLeading(e) ==
    IF Len(e) > 0 /\ e[1] \in LeadingOperators THEN Tail(e) ELSE e

\* The position after the longest run of operator characters that starts at i.
RECURSIVE OperatorsEnd(_, _)
OperatorsEnd(e, i) == IF At(e, i) \in Operators THEN OperatorsEnd(e, i + 1) ELSE i

\* expr.replace(/([+\-*\/]){2,}/g, (m) => m[m.length - 1]), from position i
\* on (script.js:62): a run of two or more operators leaves its last one.
RECURSIVE CollapseFrom(_, _)
CollapseFrom(e, i) ==
    IF i > Len(e) THEN << >>
    ELSE LET j == OperatorsEnd(e, i)
         IN  IF j - i >= 2 THEN <<e[j - 1]>> \o CollapseFrom(e, j)
             ELSE <<e[i]>> \o CollapseFrom(e, i + 1)

\* Line 62.
\* Line 62 forgotten: the runs of operators stay.
CollapseNothing(e) == e

CollapseOperators(e) == CollapseFrom(e, 1)

\* sanitizeExpression(expr) (script.js:56-65)
SanitizeExpression(expr) == CollapseOperators(StripLeading(Trim(expr)))

\* The characters /^[0-9+\-*\/().\s%]+$/ admits (script.js:74).
AllowedChars == Digits \cup Operators \cup {"(", ")", ".", " ", "%"}

\* /^[0-9+\-*\/().\s%]+$/.test(expression) (script.js:74)
ValidChars(expression) ==
    /\ Len(expression) > 0
    /\ \A i \in 1..Len(expression) : expression[i] \in AllowedChars

----------------------------------------------------------------------------
(* Evaluation: Function(`"use strict"; return (${expr});`)() of line 79,   *)
(* as a parser of the arithmetic expressions of JavaScript that computes   *)
(* the value while it reads.  A parse yields st = "ok" with the value v    *)
(* and the next position i, st = "throw" where JavaScript raises a         *)
(* SyntaxError or a TypeError, and st = "other" for the source texts this  *)
(* parser does not evaluate: white space inside the expression, "**", a    *)
(* comment, and a regular expression literal (a "/" where an operand is    *)
(* expected, closed by a later "/").  No handler of the model produces     *)
(* such a text; EvalCovered states it.  st = "big" stands for a literal of *)
(* more than nine digits, which the integers of TLC do not hold.           *)

Throw == [st |-> "throw", v |-> NaNVal, i |-> 0]
Other == [st |-> "other", v |-> NaNVal, i |-> 0]
Big == [st |-> "big", v |-> NaNVal, i |-> 0]
Ok(v, i) == [st |-> "ok", v |-> v, i |-> i]

\* A numeric literal of strict mode that starts at i: digits, then possibly
\* "." and digits.  "." alone is no literal, and an integer part of several
\* digits must not start with "0".
ParseNumber(e, i) ==
    LET j == DigitsEnd(e, i)
        dot == At(e, j) = "."
        l == IF dot THEN DigitsEnd(e, j + 1) ELSE j
        int == SubSeq(e, i, j - 1)
        frac == IF dot THEN SubSeq(e, j + 1, l - 1) ELSE << >>
    IN  IF Len(int) = 0 /\ Len(frac) = 0 THEN Throw
        ELSE IF Len(int) > 1 /\ int[1] = "0" THEN Throw
        ELSE IF Len(int) + Len(frac) > 9 THEN Big
        ELSE Ok(Num(1, DigitsToNat(int \o frac), Pow10(Len(frac))), l)

RECURSIVE ParseAdditive(_, _)
RECURSIVE ParseUnary(_, _)
RECURSIVE AdditiveTail(_, _)
RECURSIVE MultiplicativeTail(_, _)

\* The parse r of the inside of a parenthesis must be followed by ")".
CloseParen(e, r) ==
    IF r.st # "ok" THEN r
    ELSE IF At(e, r.i) = ")" THEN Ok(r.v, r.i + 1)
    ELSE Throw

\* A literal or a parenthesised expression must not be followed by "(": a
\* number is not callable.
NotCalled(e, r) == IF r.st = "ok" /\ At(e, r.i) = "(" THEN Throw ELSE r

\* A literal or a parenthesised expression.  A "/" here starts a regular
\* expression literal, which the next "/" must close.
ParsePrimary(e, i) ==
    NotCalled(e, IF At(e, i) = "(" THEN CloseParen(e, ParseAdditive(e, i + 1))
                 ELSE IF At(e, i) \in Digits \cup {"."} THEN ParseNumber(e, i)
                 ELSE IF At(e, i) = "/" /\ \E j \in (i + 1)..Len(e) : e[j] = "/"
                   THEN Other
                 ELSE Throw)

\* The unary operator c applied to the parse r of its operand.
Signed(c, r) ==
    IF r.st # "ok" THEN r ELSE Ok(IF c = "-" THEN Neg(r.v) ELSE r.v, r.i)

\* Unary "+" and "-"; "++" and "--" are update operators, which no literal
\* admits.
ParseUnary(e, i) ==
    IF At(e, i) \in {"+", "-"}
      THEN IF At(e, i + 1) = At(e, i) THEN Throw
           ELSE Signed(At(e, i), ParseUnary(e, i + 1))
    ELSE ParsePrimary(e, i)

\* x c y for a binary operator c.
Binary(c, x, y) ==
    IF c = "*" THEN Mul(x, y)
    ELSE IF c = "/" THEN Div(x, y)
    ELSE IF c = "%" THEN Mod(x, y)
    ELSE IF c = "+" THEN Add(x, y)
    ELSE Sub(x, y)

\* The value p.v, the operator c and the parse r of its right operand.
Combine(c, p, r) == IF r.st # "ok" THEN r ELSE Ok(Binary(c, p.v, r.v), r.i)

\* The parse p of a product, continued with the "*", "/" and "%" operands
\* that follow it.  "**" is the power operator, "//" and "/*" open comments.
MultiplicativeTail(e, p) ==
    IF p.st # "ok" \/ At(e, p.i) \notin {"*", "/", "%"} THEN p
    ELSE IF \/ At(e, p.i) = "*" /\ At(e, p.i + 1) = "*"
            \/ At(e, p.i) = "/" /\ At(e, p.i + 1) \in {"/", "*"}
      THEN Other
    ELSE MultiplicativeTail(e, Combine(At(e, p.i), p, ParseUnary(e, p.i + 1)))

ParseMultiplicative(e, i) == MultiplicativeTail(e, ParseUnary(e, i))

\* The parse p of a sum, continued with the "+" and "-" operands that
\* follow it.
AdditiveTail(e, p) ==
    IF p.st # "ok" \/ At(e, p.i) \notin {"+", "-"} THEN p
    ELSE IF At(e, p.i + 1) = At(e, p.i) THEN Throw
    ELSE AdditiveTail(e, Combine(At(e, p.i), p, ParseMultiplicative(e, p.i + 1)))

ParseAdditive(e, i) == AdditiveTail(e, ParseMultiplicative(e, i))

\* The parse r of the parenthesised text e must be all of e.
Whole(e, r) == IF r.st = "ok" /\ r.i # Len(e) + 1 THEN Throw ELSE r

\* The value of `return (${expr});`: the text in parentheses must be one
\* whole expression.
Parenthesised(expr) == <<"(">> \o expr \o <<")">>

EvalExpression(expr) ==
    IF \E i \in 1..Len(expr) : expr[i] = " " THEN Other
    ELSE Whole(Parenthesised(expr), ParseAdditive(Parenthesised(expr), 1))

\* safeEval(expression) (script.js:67-80): the expression is normalised,
\* then the characters of the expression as given are tested, then the
\* normalised expression is evaluated.
SafeEval(expression) ==
    IF ~ValidChars(expression) THEN Throw
    ELSE EvalExpression(SanitizeExpression(NormalizePercent(expression)))

----------------------------------------------------------------------------
(* The result as text (script.js:132-137, 146).                            *)

\* The first k digits after the decimal point of r/d, for r < d.
RECURSIVE FracDigits(_, _, _)
FracDigits(r, d, k) ==
    IF k = 0 THEN << >>
    ELSE <<(r * 10) \div d>> \o FracDigits((r * 10) % d, d, k - 1)

\* What is left of r/d after its first k digits, as a numerator over d.
RECURSIVE FracRest(_, _, _)
FracRest(r, d, k) == IF k = 0 THEN r ELSE FracRest((r * 10) % d, d, k - 1)

\* A string of digits plus one in its last place: the digits and the carry.
RECURSIVE PlusOne(_)
PlusOne(f) ==
    IF Len(f) = 0 THEN [f |-> << >>, carry |-> 1]
    ELSE IF f[Len(f)] < 9
      THEN [f |-> DropLast(f) \o <<f[Len(f)] + 1>>, carry |-> 0]
    ELSE LET p == PlusOne(DropLast(f))
         IN  [f |-> p.f \o <<0>>, carry |-> p.carry]

\* The fractional digits the result keeps (script.js:133).
FractionDigits == 10

\* parseFloat(x.toFixed(10)) for a finite x, kept as the decimal number
\* toFixed writes, its integer part and its ten decimals: the magnitude is
\* rounded to the nearest, a tie upwards.
ToFixed(x) ==
    LET q == x.n \div x.d
        r == x.n % x.d
        f == FracDigits(r, x.d, FractionDigits)
        up == 2 * FracRest(r, x.d, FractionDigits) >= x.d
        p == IF up THEN PlusOne(f) ELSE [f |-> f, carry |-> 0]
    IN  [k |-> "fixed", s |-> x.s, int |-> q + p.carry, frac |-> p.f]

RECURSIVE StripZerosEnd(_)
StripZerosEnd(f) ==
    IF Len(f) > 0 /\ f[Len(f)] = 0 THEN StripZerosEnd(DropLast(f)) ELSE f

RECURSIVE StripZerosStart(_)
StripZerosStart(f) ==
    IF Len(f) > 0 /\ f[1] = 0 THEN StripZerosStart(Tail(f)) ELSE f

DigitString(f) == [i \in 1..Len(f) |-> DigitChar(f[i])]

\* String(x) for x a decimal number of ten decimals: the decimals lose
\* their trailing zeros, a zero loses its sign, and a magnitude under
\* 0.000001 is written with an exponent.
FixedToString(t) ==
    LET f == StripZerosEnd(t.frac)
        sig == StripZerosStart(f)
        sign == IF t.s = -1 THEN <<"-">> ELSE << >>
    IN  IF Len(f) = 0
          THEN IF t.int = 0 THEN <<"0">> ELSE sign \o NatToString(t.int)
        ELSE IF t.int = 0 /\ Len(f) - Len(sig) >= 6
          THEN sign \o <<DigitChar(sig[1])>>
                    \o (IF Len(sig) > 1 THEN <<".">> \o DigitString(Tail(sig))
                        ELSE << >>)
                    \o <<"e", "-">> \o NatToString(Len(f) - Len(sig) + 1)
        ELSE sign \o NatToString(t.int) \o <<".">> \o DigitString(f)

\* String(x) for x an integer, an infinity or NaN.
NumberToString(x) ==
    IF x.k = "nan" THEN NaNStr
    ELSE IF x.k = "inf"
      THEN IF x.s = -1 THEN <<"-">> \o InfinityStr ELSE InfinityStr
    ELSE IF x.n = 0 THEN <<"0">>
    ELSE (IF x.s = -1 THEN <<"-">> ELSE << >>) \o NatToString(x.n)

\* String(x) (script.js:137, 146)
JsString(x) == IF x.k = "fixed" THEN FixedToString(x) ELSE NumberToString(x)

\* The value rounded of lines 132-134: a number that is no integer goes
\* through toFixed(10) and parseFloat, which leave an infinity and NaN as
\* they are.
Rounded(result) ==
    IF result.k = "num" /\ ~IsInteger(result) THEN ToFixed(result) ELSE result

----------------------------------------------------------------------------
(* Calculation and history (script.js:14-28, 126-153, 191-219).            *)

\* The cap of the history (script.js:150).
HistoryCap == 200

\* What JSON.stringify(history) stores: JSON.parse gives the array back.
Saved(h) == [kind |-> "array", val |-> h]

\* No item under STORAGE_KEY: getItem returns null.
Missing == [kind |-> "missing", val |-> << >>]

\* An item that is no JSON text: JSON.parse throws.
Corrupt == [kind |-> "corrupt", val |-> << >>]

\* An item that is the JSON text of a string: JSON.parse gives the string,
\* which is no array; the empty string is falsy, and line 22 takes [] for it.
StoredString(str) == [kind |-> "string", val |-> str]

\* renderHistory() on the value loadHistory has taken from the item
\* (script.js:155-163): a non-empty string passes the test of line 157 and
\* has no forEach, so line 163 throws a TypeError, which nobody catches.
RenderHistoryThrows(item) == item.kind = "string" /\ item.val # << >>

\* The entry addToHistory builds (script.js:144-148).
Entry(expression, result, time) ==
    [expr |-> expression, result |-> result, time |-> time]

\* Line 150 with shift() for pop(): the newest entry is removed.
CapHistoryShift(h) == IF Len(h) > HistoryCap THEN Tail(h) ELSE h

\* Line 150: if (history.length > 200) history.pop()
CapHistory(h) == IF Len(h) > HistoryCap THEN DropLast(h) ELSE h

\* The history array after addToHistory (script.js:149-150).
AddToHistoryResult(h, expression, result, time) ==
    CapHistory(<<Entry(expression, result, time)>> \o h)

\* Lines 136-139 with line 137 failing: the entry is recorded and the catch
\* clause shows "Error".
RecordThenError(expr, rounded) ==
    /\ history' = <<Entry(expr, JsString(rounded), clock)>> \o history
    /\ storage' = [kind |-> "array", val |-> history']
    /\ clock' = clock + 1
    /\ display' = ErrorStr

\* Lines 136-137 and addToHistory: the rounded result goes to the history,
\* which is saved, and then to the display.
Record(expr, rounded) ==
    /\ history' = AddToHistoryResult(history, expr, JsString(rounded), clock)
    /\ storage' = Saved(history')
    /\ clock' = clock + 1
    /\ display' = JsString(rounded)

\* Lines 130-140 with addToHistory called in the catch clause too.
ConcludeRecordsThrow(expr, r) ==
    IF r.st = "ok" THEN Record(expr, Rounded(r.v))
    ELSE /\ r.st = "throw"
         /\ display' = ErrorStr
         /\ history' = AddToHistoryResult(history, expr, ErrorStr, clock)
         /\ storage' = Saved(history')
         /\ clock' = clock + 1

\* Lines 130-140 for the outcome r of safeEval(expr): an exception leaves
\* "Error" in the display.  A text the parser does not evaluate (st =
\* "other" or "big") is left alone.
Conclude(expr, r) ==
    IF r.st = "ok" THEN Record(expr, Rounded(r.v))
    ELSE /\ r.st = "throw"
         /\ display' = ErrorStr
         /\ UNCHANGED <<history, storage, clock>>

\* The local expr of safeEval after line 70, for calculateResult's call of
\* safeEval; calculateResult returns before it on an empty buffer.
Normalized(d) ==
    IF Trim(d) = << >> THEN << >>
    ELSE SanitizeExpression(NormalizePercent(Trim(d)))

\* Lines 126-141 without the return of line 128.
CalculateResultNoReturn ==
    /\ call' = [op |-> "calculateResult", arg |-> Normalized(display),
                before |-> display]
    /\ Conclude(Trim(display), SafeEval(Trim(display)))

\* calculateResult() (script.js:126-141), with addToHistory (143-153) and
\* saveHistory (14-16) in it.  The call records, as its argument, the
\* expression safeEval evaluated.
CalculateResult ==
    /\ call' = [op |-> "calculateResult", arg |-> Normalized(display),
                before |-> display]
    /\ IF Trim(display) = << >>
         THEN UNCHANGED <<display, history, storage, clock>>
       ELSE Conclude(Trim(display), SafeEval(Trim(display)))

\* loadHistory() (script.js:18-28)
LoadHistory ==
    /\ history' = IF storage.kind = "missing" THEN history
                  ELSE IF storage.kind = "corrupt" THEN << >>
                  ELSE storage.val
    /\ call' = [op |-> "loadHistory", arg |-> << >>, before |-> display]
    /\ UNCHANGED <<display, storage, clock>>

\* clearHistory() (script.js:200-204)
ClearHistory ==
    /\ history' = << >>
    /\ storage' = Saved(history')
    /\ call' = [op |-> "clearHistory", arg |-> << >>, before |-> display]
    /\ UNCHANGED <<display, clock>>

\* The samples of addSampleData (script.js:207-213).
Samples == <<
    [exp |-> <<"5", "+", "3">>, res |-> <<"8">>],
    [exp |-> <<"1", "2", "/", "4">>, res |-> <<"3">>],
    [exp |-> <<"7", "*", "6">>, res |-> <<"4", "2">>],
    [exp |-> <<"5", "0", "%">>, res |-> <<"0", ".", "5">>],
    [exp |-> <<"2", "0", "0", "-", "1", "0", "%">>, res |-> <<"1", "8", "0">>] >>

\* The history after samples.forEach(s => history.unshift(...)): the last
\* sample comes first (script.js:214-216).
RECURSIVE UnshiftSamples(_, _, _)
UnshiftSamples(h, k, time) ==
    IF k > Len(Samples) THEN h
    ELSE UnshiftSamples(<<Entry(Samples[k].exp, Samples[k].res, time)>> \o h,
                        k + 1, time + 1)

\* addSampleData() (script.js:206-219)
\* addSampleData() without its saveHistory() of line 217.
AddSampleDataUnsaved ==
    /\ history' = UnshiftSamples(history, 1, clock)
    /\ clock' = clock + Len(Samples)
    /\ call' = [op |-> "addSampleData", arg |-> << >>, before |-> display]
    /\ UNCHANGED <<display, storage>>

AddSampleData ==
    /\ history' = UnshiftSamples(history, 1, clock)
    /\ storage' = Saved(history')
    /\ clock' = clock + Len(Samples)
    /\ call' = [op |-> "addSampleData", arg |-> << >>, before |-> display]
    /\ UNCHANGED display

\* A row click that evaluates again: the entry clicked is recorded anew.
RowClickRecords(i) ==
    /\ i \in 1..Len(history)
    /\ display' = history[i].expr
    /\ call' = [op |-> "rowClick", arg |-> <<i>>, before |-> display]
    /\ history' = <<Entry(history[i].expr, history[i].result, clock)>> \o history
    /\ storage' = [kind |-> "array", val |-> history']
    /\ clock' = clock + 1

\* The click listener of the i-th row renderHistory made (script.js:192-194);
\* every change of the history is followed by renderHistory, so the rows are
\* the entries of the history.
RowClick(i) ==
    /\ i \in 1..Len(history)
    /\ display' = history[i].expr
    /\ call' = [op |-> "rowClick", arg |-> <<i>>, before |-> display]
    /\ UNCHANGED <<history, storage, clock>>

----------------------------------------------------------------------------
(* The state when the script has been loaded, before any event: an empty   *)
(* input, an empty history array, and nothing stored yet.                  *)

Init ==
    /\ display = << >>
    /\ history = << >>
    /\ storage = Missing
    /\ clock = 0
    /\ call = [op |-> "load", arg |-> << >>, before |-> << >>]

\* The input state machine alone: keystrokes, Backspace and Escape.
TypeKey ==
    \E value \in Keys :
        Len(AppendValueResult(display, value)) <= MaxLen /\ AppendValue(value)

NextInput == TypeKey \/ DeleteLast \/ ClearDisplay

SpecInput == Init /\ [][NextInput]_vars

\* The calculator: typing, evaluation, and the history of a few results.
TypeCalcKey ==
    \E value \in CalcKeys :
        Len(AppendValueResult(display, value)) <= MaxCalcLen /\ AppendValue(value)

\* calculateResult would call addToHistory.
Inserts == Trim(display) # << >> /\ SafeEval(Trim(display)).st = "ok"

Evaluate == (clock < MaxEvals \/ ~Inserts) /\ CalculateResult

ClickRow == \E i \in 1..Len(history) : RowClick(i)

Next ==
    \/ TypeCalcKey
    \/ DeleteLast
    \/ ClearDisplay
    \/ Evaluate
    \/ ClickRow
    \/ ClearHistory
    \/ LoadHistory

Spec == Init /\ [][Next]_vars

\* The history on its way to its cap: one expression, evaluated again and
\* again, and one batch of samples at a time.
TypeOne == display = << >> /\ AppendValue("1")

Insert == clock < MaxInserts /\ CalculateResult

NoSampleInHistory ==
    \A i \in 1..Len(history) : \A k \in 1..Len(Samples) :
        history[i].expr # Samples[k].exp

AddSamples == clock <= MaxInserts /\ NoSampleInHistory /\ AddSampleData

NextHist == TypeOne \/ Insert \/ AddSamples \/ LoadHistory

SpecHist == Init /\ [][NextHist]_vars

\* The evaluation of any text, and the key that follows an error: the
\* display holds a text that came from
\* outside the handlers (a stored entry, or text put into the input), made
\* of two digits, the operators, the parentheses, "." and "%".
InputChars == {"0", "1", "(", ")", ".", "%"} \cup Operators

InputStrings == UNION {[1..n -> InputChars] : n \in 0..MaxInputLen}

InitInput ==
    /\ display \in InputStrings
    /\ history = << >>
    /\ storage = Missing
    /\ clock = 0
    /\ call = [op |-> "load", arg |-> << >>, before |-> << >>]

\* Any key, typed on a display that shows an error.
TypeOnSentinel == \E value \in Keys : display \in Sentinels /\ AppendValue(value)

NextEval == Evaluate \/ TypeOnSentinel

SpecEval == InitInput /\ [][NextEval]_vars

\* Keys typed after any text, and its evaluation: a key is typed on a
\* display that holds, once an error is cleared from it, no more than the
\* longest text evaluated.  The exploration ends with the key typed on the
\* first result recorded.
TypeShort ==
    \E value \in Keys :
        /\ Len(ClearSentinel(display)) <= MaxInputLen
        /\ history = << >> \/ call.op = "calculateResult"
        /\ AppendValue(value)

EvaluateFirst == history = << >> /\ CalculateResult

NextKeys == EvaluateFirst \/ TypeShort

SpecKeys == InitInput /\ [][NextKeys]_vars

\* The start of the page on any stored item: init() calls loadHistory once
\* (script.js:264); then keys are typed and the history is cleared.  The
\* item is missing, no JSON text, the JSON text of a string, or an array
\* that saveHistory wrote.
StoredItems ==
    {Missing, Corrupt, StoredString(<< >>), StoredString(<<"x">>),
     Saved(<< >>), Saved(<<Entry(<<"1">>, <<"1">>, 0)>>)}

InitStored ==
    /\ display = << >>
    /\ history = << >>
    /\ storage \in StoredItems
    /\ clock = 0
    /\ call = [op |-> "load", arg |-> << >>, before |-> << >>]

Started == call.op # "load"

LoadAtStart == ~Started /\ LoadHistory

NextLoad ==
    \/ LoadAtStart
    \/ Started /\ TypeCalcKey
    \/ Started /\ DeleteLast
    \/ Started /\ ClearDisplay
    \/ Started /\ ClearHistory

SpecLoad == InitStored /\ [][NextLoad]_vars

\* The samples evaluated: the samples are added to an empty history, a row
\* is clicked, its expression is shortened with Backspace and evaluated,
\* and the history is cleared.
AddFirstSamples == clock = 0 /\ AddSampleData

EvaluateSample ==
    /\ clock < Len(Samples) + MaxEvals \/ ~Inserts
    /\ CalculateResult

NextSamples ==
    \/ AddFirstSamples
    \/ ClickRow
    \/ DeleteLast
    \/ EvaluateSample
    \/ ClearHistory

SpecSamples == Init /\ [][NextSamples]_vars

\* Every text the handlers of the model put in the display is one the
\* parser evaluates, or holds a literal too long for it.
EvalCovered == SafeEval(Trim(display)).st # "other"

----------------------------------------------------------------------------
(* The claims.                                                             *)

\* C1: from an empty display, after any appendValue, deleteLast and
\* clearDisplay, the buffer never begins with "+", "*" or "/".
\* (Stated as claimed; appendValue("-") then appendValue("+") leaves "+".)
C1_NoLeadingOperator ==
    display = << >> \/ display[1] \notin LeadingOperators

\* C2: from an empty display, after any appendValue, deleteLast and
\* clearDisplay, no two adjacent characters of the buffer are both
\* operators.
C2_NoAdjacentOperators ==
    \A i \in 1..(Len(display) - 1) :
        ~(display[i] \in Operators /\ display[i + 1] \in Operators)

\* An operator was typed after "1+" and the buffer is "1-".
C2_Witness ==
    /\ call.op = "appendValue"
    /\ call.before = <<"1", "+">>
    /\ call.arg = <<"-">>
    /\ display = <<"1", "-">>

\* C3: for every text of digits, operators, parentheses, "." and "%", the
\* normalised expression does not begin with "+", "*" or "/".
\* (Stated as claimed; "++1" is normalised to "+1".)
C3_NormalizedNoLeadingOperator ==
    (/\ call.op = "calculateResult"
     /\ \A i \in 1..Len(call.before) : call.before[i] \in AllowedChars \ {" "})
        => (call.arg = << >> \/ call.arg[1] \notin LeadingOperators)

\* C4: the history never holds more than 200 entries.
\* (Stated as claimed; addSampleData on a history of 196 entries or more
\* leaves more than 200.)
C4_HistoryWithinCap == Len(history) <= HistoryCap

\* C5: the history is ordered newest first and the oldest entry is the one
\* evicted: the entries are, from the head, the latest ones inserted, each
\* addToHistory puts its entry at the head and keeps the entries before it
\* in their order, less the last one when they were 200 or more.
C5_NewestFirstOldestEvicted ==
    /\ [](\A i \in 1..Len(history) : history[i].time = clock - i)
    /\ [][(call'.op = "calculateResult" /\ clock' # clock) =>
            /\ history'[1] = Entry(Trim(display), display', clock)
            /\ Tail(history') = IF Len(history) >= HistoryCap
                                  THEN DropLast(history) ELSE history]_vars

\* The 201st insertion has been made: the history holds the 200 latest
\* entries and not the first.
C5_Witness ==
    /\ call.op = "calculateResult"
    /\ clock = HistoryCap + 1
    /\ Len(history) = HistoryCap
    /\ \A i \in 1..Len(history) : history[i].expr = <<"1">>
    /\ history[HistoryCap].time = 1

\* C6: on a display that shows "Error", "Infinity" or "NaN", appendValue(v)
\* leaves the buffer it leaves on an empty display; after "Error", a digit
\* leaves that digit alone.
C6_SentinelClearedFirst ==
    (call.op = "appendValue" /\ call.before \in Sentinels) =>
        /\ display = AppendValueResult(<< >>, call.arg[1])
        /\ call.arg[1] \in Digits => display = call.arg

\* A digit was typed on "NaN".
C6_Witness ==
    /\ call.op = "appendValue"
    /\ call.before = NaNStr
    /\ call.arg = <<"1">>
    /\ display = <<"1">>

\* C7: deleteLast removes the last character of the buffer, and clears the
\* buffer when the display shows "Error", "Infinity" or "NaN".
\* (Stated as claimed; deleteLast on "Infinity" leaves "Infinit".)
C7_DeleteLastClearsSentinel ==
    call.op = "deleteLast" =>
        display = IF call.before \in Sentinels THEN << >>
                  ELSE DropLast(call.before)

\* C8: calculateResult on an empty buffer leaves the display empty and the
\* history and the storage as they were.
C8_EmptyBufferNoOp ==
    [][(call'.op = "calculateResult" /\ display = << >>) =>
          (display' = << >> /\ history' = history /\ storage' = storage
             /\ clock' = clock)]_vars

\* calculateResult has run on an empty buffer.
C8_Witness ==
    call.op = "calculateResult" /\ call.before = << >> /\ display = << >>

\* C9: when the buffer holds a character outside the allowed set,
\* calculateResult leaves "Error" in the display and the history as it was.
C9_InvalidCharacterError ==
    [][(/\ call'.op = "calculateResult"
        /\ \E i \in 1..Len(display) : display[i] \notin AllowedChars) =>
          (display' = ErrorStr /\ history' = history /\ storage' = storage)]_vars

\* calculateResult has run on "Infinity", left there by 1/0, whose entry
\* is the only one of the history.
C9_Witness ==
    /\ call.op = "calculateResult"
    /\ call.before = InfinityStr
    /\ display = ErrorStr
    /\ Len(history) = 1

\* C10: appendValue of an operator on a buffer that ends in an operator
\* replaces it: the length and the characters before the last are
\* unchanged, and the last character is the new operator.
C10_OperatorReplaced ==
    (/\ call.op = "appendValue"
     /\ call.arg[1] \in Operators
     /\ Len(call.before) > 0
     /\ call.before[Len(call.before)] \in Operators) =>
        /\ Len(display) = Len(call.before)
        /\ DropLast(display) = DropLast(call.before)
        /\ display[Len(display)] = call.arg[1]

\* "*" was typed after "0.1/" and the buffer is "0.1*".
C10_Witness ==
    /\ call.op = "appendValue"
    /\ call.before = <<"0", ".", "1", "/">>
    /\ call.arg = <<"*">>
    /\ display = <<"0", ".", "1", "*">>

\* C11: on an empty buffer, appendValue of "+", "*" or "/" leaves the buffer
\* empty, and appendValue of "-" leaves the buffer "-".
C11_LeadingOperatorRejected ==
    (call.op = "appendValue" /\ call.before = << >>
        /\ call.arg[1] \in Operators) =>
        display = IF call.arg[1] = "-" THEN <<"-">> ELSE << >>

\* A "*" has been typed on the empty buffer, which is still empty.
C11_Witness ==
    /\ call.op = "appendValue"
    /\ call.before = << >>
    /\ call.arg = <<"*">>
    /\ display = << >>

\* C12: appendValue(".") leaves the buffer as it is when the text since the
\* last operator holds a "."; so no two "." of the buffer are without an
\* operator between them.
\* (Stated as claimed, with the operators + - * /; "1.%" followed by "."
\* becomes "1.%0.".)
C12_OneDotPerSegment ==
    /\ (call.op = "appendValue" /\ call.arg = <<".">>
          /\ \E i \in 1..Len(call.before) :
                /\ call.before[i] = "."
                /\ \A j \in (i + 1)..Len(call.before) :
                      call.before[j] \notin Operators)
        => display = call.before
    /\ \A i, j \in 1..Len(display) :
          (i < j /\ display[i] = "." /\ display[j] = ".") =>
              \E k \in (i + 1)..(j - 1) : display[k] \in Operators

\* C12, with "%" counted among the characters that end a numeric segment,
\* as line 103 counts it: appendValue(".") leaves the buffer as it is when
\* the text since the last of + - * / % holds a "."; so no two "." of the
\* buffer are without one of + - * / % between them.
C12_OneDotPerToken ==
    /\ (call.op = "appendValue" /\ call.arg = <<".">>
          /\ \E i \in 1..Len(call.before) :
                /\ call.before[i] = "."
                /\ \A j \in (i + 1)..Len(call.before) :
                      call.before[j] \notin Operators \cup {"%"})
        => display = call.before
    /\ \A i, j \in 1..Len(display) :
          (i < j /\ display[i] = "." /\ display[j] = ".") =>
              \E k \in (i + 1)..(j - 1) : display[k] \in Operators \cup {"%"}

\* A second "." has been typed after "1.0" and the buffer is still "1.0".
C12_Witness ==
    /\ call.op = "appendValue"
    /\ call.arg = <<".">>
    /\ call.before = <<"1", ".", "0">>
    /\ display = <<"1", ".", "0">>

\* C13: appendValue(".") on an empty numeric segment (an empty buffer, a
\* display that shows an error, or a buffer that ends in an operator)
\* appends "0.": the buffer is the text that was there, none for an error,
\* followed by "0.".
C13_LeadingDotGetsZero ==
    (call.op = "appendValue" /\ call.arg = <<".">>
        /\ (\/ call.before = << >>
            \/ call.before \in Sentinels
            \/ call.before[Len(call.before)] \in Operators)) =>
        display = (IF call.before \in Sentinels THEN << >> ELSE call.before)
                      \o <<"0", ".">>

\* A "." has been typed after "1/": the buffer is "1/0.".
C13_Witness ==
    /\ call.op = "appendValue"
    /\ call.arg = <<".">>
    /\ call.before = <<"1", "/">>
    /\ display = <<"1", "/", "0", ".">>

\* C14: in the normalized expression every maximal run of two or more
\* operator characters of the input has become the last character of the
\* run, so no two operator characters are adjacent in it.  The normalized
\* expression is the input, percents rewritten, with every operator that
\* is followed by an operator removed, less the leading "+", "*" or "/"
\* that line 59 strips when it stands alone.
C14_RunsCollapsedToLast ==
    call.op = "calculateResult" =>
        LET p == Trim(NormalizePercent(Trim(call.before)))
            kept == {i \in 1..Len(p) :
                        ~(p[i] \in Operators /\ i < Len(p)
                            /\ p[i + 1] \in Operators)}
            last == [m \in 1..Cardinality(kept) |->
                        p[CHOOSE i \in kept :
                            Cardinality({j \in kept : j <= i}) = m]]
            alone == /\ Len(p) > 0
                     /\ p[1] \in LeadingOperators
                     /\ ~(Len(p) > 1 /\ p[2] \in Operators)
        IN  /\ call.arg = IF alone THEN Tail(last) ELSE last
            /\ \A i \in 1..(Len(call.arg) - 1) :
                  ~(call.arg[i] \in Operators /\ call.arg[i + 1] \in Operators)

\* "1+-1" has been evaluated as "1-1".
C14_Witness ==
    /\ call.op = "calculateResult"
    /\ call.before = <<"1", "+", "-", "1">>
    /\ call.arg = <<"1", "-", "1">>
    /\ display = <<"0">>

\* C15: loadHistory on a stored item that is missing or corrupt (no JSON
\* text, or the JSON text of something that is no array) leaves an empty
\* history, and renderHistory completes.
\* (Stated as claimed; on the JSON text of the string "x" the history is
\* that string and renderHistory throws.)
C15_CorruptStorageGivesEmptyHistory ==
    (call.op = "loadHistory" /\ storage.kind # "array") =>
        (history = << >> /\ ~RenderHistoryThrows(storage))

\* C16: when the value of the buffer is not finite, calculateResult shows
\* "Infinity" or "NaN" and puts one entry at the head of the history, with
\* the evaluated buffer as its expression and the text shown as its result.
\* (Stated as claimed; "-1/0" shows "-Infinity", which is neither.)
C16_NonFiniteShowsSentinel ==
    [][(/\ call'.op = "calculateResult"
        /\ Trim(display) # << >>
        /\ SafeEval(Trim(display)).st = "ok"
        /\ SafeEval(Trim(display)).v.k \in {"inf", "nan"}) =>
            /\ display' \in {InfinityStr, NaNStr}
            /\ Len(history') = Len(history) + 1
            /\ Tail(history') = history
            /\ history'[1].expr = Trim(display)
            /\ history'[1].result = display']_vars

\* C17: a click on a row of the history puts that entry's expression in
\* the buffer and evaluates nothing: the history and the stored copy are
\* as they were.
C17_RowClickRestoresExpression ==
    [][call'.op = "rowClick" =>
        /\ display' = history[call'.arg[1]].expr
        /\ history' = history
        /\ storage' = storage]_vars

\* The row of "1/0" has been clicked on a display of "Infinity": the
\* buffer holds "1/0" and the history holds the one entry still.
C17_Witness ==
    /\ call.op = "rowClick"
    /\ call.before = InfinityStr
    /\ display = <<"1", "/", "0">>
    /\ Len(history) = 1
    /\ history[1].expr = display
    /\ storage.val = history

\* C18: the evaluation of "200-10%" shows 180, the result of the sample
\* entry for that expression, and the evaluation of "50%" shows 0.5.
\* (Stated as claimed; "200-10%" is evaluated as 200-(10/100) and shows
\* 199.9.)
C18_SamplesEvaluateAsBundled ==
    /\ (call.op = "calculateResult" /\ call.before = Samples[5].exp) =>
          (display = <<"1", "8", "0">> /\ display = Samples[5].res)
    /\ (call.op = "calculateResult" /\ call.before = Samples[4].exp) =>
          (display = <<"0", ".", "5">> /\ display = Samples[4].res)

\* C19: after addToHistory, clearHistory and addSampleData the stored copy
\* is the history, entry for entry and in the same order.
C19_StorageMirrorsHistory ==
    [][(\/ call'.op \in {"clearHistory", "addSampleData"}
        \/ call'.op = "calculateResult" /\ history' # history) =>
            (storage'.kind = "array" /\ storage'.val = history')]_vars

\* "200-10" has been evaluated after the samples were added: the stored
\* copy holds the six entries of the history.
C19_Witness ==
    /\ call.op = "calculateResult"
    /\ call.before = <<"2", "0", "0", "-", "1", "0">>
    /\ Len(history) = Len(Samples) + 1
    /\ history[1].result = <<"1", "9", "0">>
    /\ storage.val = history

\* C20: calculateResult on a non-empty buffer either shows "Error" and
\* leaves the history as it was, or puts one entry at the head of the
\* history, whose expression is the trimmed buffer and whose result is the
\* text now shown; and no entry of the history has the result "Error".
C20_ErrorOrOneEntry ==
    /\ [][(call'.op = "calculateResult" /\ display # << >>) =>
              \/ display' = ErrorStr /\ history' = history
              \/ /\ display' # ErrorStr
                 /\ Len(history') = Len(history) + 1
                 /\ Tail(history') = history
                 /\ history'[1].expr = Trim(display)
                 /\ history'[1].result = display']_vars
    /\ [](\A i \in 1..Len(history) : history[i].result # ErrorStr)

\* "1%" has been evaluated: "0.01" is shown and recorded.
C20_Witness ==
    /\ call.op = "calculateResult"
    /\ call.before = <<"1", "%">>
    /\ display = <<"0", ".", "0", "1">>
    /\ history = <<Entry(<<"1", "%">>, <<"0", ".", "0", "1">>, 0)>>

====
